---- MODULE Spec2Model ----
\* Model of the septic-monitor service (src/main.go): the POST /api ingestion
\* handler, the GET /api/level query handler, the level_data table and the
\* threshold notification guard (checkAndNotify, lastNotifiedAt,
\* notificationMux) with the outbound sms.Send call.
\*
\* Time is counted in minutes.  Levels are small integers standing for the
\* float64 readings; the code only stores, returns and compares them.
EXTENDS Integers, Sequences, FiniteSets, TLC

\* ---------------------------------------------------------------- bounds
MaxReq == 3          \* number of HTTP requests in a behaviour
MaxRows == 2         \* number of readings the table comes to hold
StartTime == 100     \* clock reading when the process starts (minutes)
TickStep == 30       \* the clock advances in steps of this many minutes
MaxTime == 160       \* the clock stops advancing here

\* ----------------------------------------------------- program constants
Hour == 60           \* time.Hour, the cooldown of checkAndNotify
ZeroTime == 0        \* the zero time.Time, initial value of lastNotifiedAt

StatusOK == 200
StatusBadRequest == 400
StatusMethodNotAllowed == 405
StatusInternalServerError == 500

Reqs == 1..MaxReq
Levels == {10, 12}                         \* levels a request body carries
ThresholdStrs == {"", "abc", "10", "12"}   \* values of LEVEL_THRESHOLD

VARIABLES
    now,              \* the clock (time.Now())
    thresholdStr,     \* os.Getenv("LEVEL_THRESHOLD")
    lastNotifiedAt,   \* var lastNotifiedAt time.Time
    notificationMux,  \* var notificationMux sync.Mutex: 0 free, else the holder
    level_data,       \* the level_data table, rows in insertion order
    handler,          \* per request: the HTTP handler's position and result
    guard,            \* per request: the spawned checkAndNotify goroutine
    evalLog           \* requests in the order their goroutine took the lock

vars == <<now, thresholdStr, lastNotifiedAt, notificationMux, level_data,
          handler, guard, evalLog>>

\* ------------------------------------------------------------- helpers
\* strconv.ParseFloat: the value (0 on error) and whether it parsed.
ParseFloat(s) == IF s = "10" THEN 10 ELSE IF s = "12" THEN 12 ELSE 0
ParseFloatErr(s) == s \notin {"10", "12"}

\* checkAndNotify lines 83-92: a threshold is configured and parses.
\* (ThresholdConfiguredAlways: the variant that lacks both early returns.)
ThresholdConfiguredAlways(s) == TRUE
ThresholdConfigured(s) == s # "" /\ ~ParseFloatErr(s)

\* checkAndNotify line 95: "if level < threshold { return }".
\* (BelowThresholdOrEqual: the variant that compares with <=.)
BelowThresholdOrEqual(level, threshold) == level <= threshold
BelowThreshold(level, threshold) == level < threshold

\* time.Since(t) at clock reading n.
Since(t, n) == n - t

\* checkAndNotify line 100: "if time.Since(lastNotifiedAt) < time.Hour".
\* The zero lastNotifiedAt lies more than an hour before any clock reading.
\* (CoolingNever, CoolingInclusive: variants without the check, and with <=.)
CoolingNever(last, n) == FALSE
CoolingInclusive(last, n) == Since(last, n) <= Hour
Cooling(last, n) == Since(last, n) < Hour

\* The row INSERTed by saveLevelData: AUTOINCREMENT id, level, created_at.
Row(id, level, createdAt) == [id |-> id, level |-> level, created_at |-> createdAt]

\* (InsertRowFirst: the variant that puts the new row before the old ones.)
InsertRowFirst(table, level, createdAt) ==
    <<Row(Len(table) + 1, level, createdAt)>> \o table
InsertRow(table, level, createdAt) ==
    Append(table, Row(Len(table) + 1, level, createdAt))

\* "SELECT level FROM level_data ORDER BY created_at DESC LIMIT 1": the rows
\* the query may return.  The statement orders by created_at only, so among
\* rows with the same greatest created_at the engine is free to return any.
LatestRows(table) ==
    {i \in 1..Len(table) :
        \A j \in 1..Len(table) : table[j].created_at <= table[i].created_at}

IdleHandler == [pc |-> "idle", kind |-> "none", level |-> 0,
                rowId |-> 0, status |-> 0, body |-> 0, seen |-> 0,
                dbErr |-> FALSE]
IdleGuard == [pc |-> "none", level |-> 0, decidedAt |-> 0, decision |-> "none",
              sendEnd |-> 0, sendOk |-> FALSE]

\* A handler is running between its first and its last step.
Running(r) == handler[r].pc = "saved"
\* Requests arrive in the order of their numbers.
NextReq(r) == handler[r].pc = "idle" /\ \A q \in 1..(r - 1) : handler[q].pc # "idle"
\* The request r would begin while the handler of another is running.
Overlaps(r) == \E q \in Reqs \ {r} : Running(q)

Init ==
    /\ now = StartTime
    /\ thresholdStr \in ThresholdStrs
    /\ lastNotifiedAt = ZeroTime
    /\ notificationMux = 0
    /\ level_data = << >>
    /\ handler = [r \in Reqs |-> IdleHandler]
    /\ guard = [r \in Reqs |-> IdleGuard]
    /\ evalLog = << >>

\* The clock advances.
Tick ==
    /\ now + TickStep <= MaxTime
    /\ now' = now + TickStep
    /\ UNCHANGED <<thresholdStr, lastNotifiedAt, notificationMux, level_data,
                   handler, guard, evalLog>>

\* ------------------------------------------------- POST /api (main.go 116-152)
\* handleSaveLevelData up to its store write: the method check, the JSON
\* decoding and saveLevelData, which stamps the row with time.Now().
\* (HandleSaveBeforeDecode: the variant that writes the row before it looks
\* at the decoding error.  HandleSaveIgnoringError: the variant that goes on
\* to the evaluation and the response after a failed store write.)
HandleSaveBeforeDecode(r, kind, lvl, dbOk) ==
    /\ NextReq(r)
    /\ IF kind = "notpost" THEN
           /\ handler' = [handler EXCEPT ![r] = [@ EXCEPT !.pc = "done", !.kind = kind,
                    !.status = StatusMethodNotAllowed]]
           /\ UNCHANGED level_data
       ELSE IF kind = "malformed" THEN
           /\ Len(level_data) < MaxRows
           /\ level_data' = InsertRow(level_data, 0, now)
           /\ handler' = [handler EXCEPT ![r] = [@ EXCEPT !.pc = "done", !.kind = kind,
                    !.status = StatusBadRequest]]
       ELSE IF ~dbOk THEN
           /\ handler' = [handler EXCEPT ![r] = [@ EXCEPT !.pc = "done", !.kind = kind,
                    !.status = StatusInternalServerError, !.dbErr = TRUE]]
           /\ UNCHANGED level_data
       ELSE
           /\ Len(level_data) < MaxRows
           /\ level_data' = InsertRow(level_data, lvl, now)
           /\ handler' = [handler EXCEPT ![r] = [@ EXCEPT !.pc = "saved", !.kind = kind,
                    !.level = lvl, !.rowId = Len(level_data')]]
    /\ UNCHANGED <<now, thresholdStr, lastNotifiedAt, notificationMux, guard, evalLog>>

HandleSaveIgnoringError(r, kind, lvl, dbOk) ==
    /\ NextReq(r)
    /\ IF kind = "notpost" THEN
           /\ handler' = [handler EXCEPT ![r] = [@ EXCEPT !.pc = "done", !.kind = kind,
                    !.status = StatusMethodNotAllowed]]
           /\ UNCHANGED level_data
       ELSE IF kind = "malformed" THEN
           /\ handler' = [handler EXCEPT ![r] = [@ EXCEPT !.pc = "done", !.kind = kind,
                    !.status = StatusBadRequest]]
           /\ UNCHANGED level_data
       ELSE IF ~dbOk THEN
           /\ handler' = [handler EXCEPT ![r] = [@ EXCEPT !.pc = "saved", !.kind = kind,
                    !.level = lvl, !.dbErr = TRUE]]
           /\ UNCHANGED level_data
       ELSE
           /\ Len(level_data) < MaxRows
           /\ level_data' = InsertRow(level_data, lvl, now)
           /\ handler' = [handler EXCEPT ![r] = [@ EXCEPT !.pc = "saved", !.kind = kind,
                    !.level = lvl, !.rowId = Len(level_data')]]
    /\ UNCHANGED <<now, thresholdStr, lastNotifiedAt, notificationMux, guard, evalLog>>

HandleSave(r, kind, lvl, dbOk) ==
    /\ NextReq(r)
    /\ IF kind = "notpost" THEN
           /\ handler' = [handler EXCEPT ![r] = [@ EXCEPT !.pc = "done", !.kind = kind,
                    !.status = StatusMethodNotAllowed]]
           /\ UNCHANGED level_data
       ELSE IF kind = "malformed" THEN
           /\ handler' = [handler EXCEPT ![r] = [@ EXCEPT !.pc = "done", !.kind = kind,
                    !.status = StatusBadRequest]]
           /\ UNCHANGED level_data
       ELSE IF ~dbOk THEN
           /\ handler' = [handler EXCEPT ![r] = [@ EXCEPT !.pc = "done", !.kind = kind,
                    !.status = StatusInternalServerError, !.dbErr = TRUE]]
           /\ UNCHANGED level_data
       ELSE
           /\ Len(level_data) < MaxRows
           /\ level_data' = InsertRow(level_data, lvl, now)
           /\ handler' = [handler EXCEPT ![r] = [@ EXCEPT !.pc = "saved", !.kind = kind,
                    !.level = lvl, !.rowId = Len(level_data')]]
    /\ UNCHANGED <<now, thresholdStr, lastNotifiedAt, notificationMux, guard, evalLog>>

\* handleSaveLevelData after a successful write: "go checkAndNotify(req.Level)"
\* and the 200 response carrying the level.
\* (HandleRespondAfterLock: the variant that calls checkAndNotify without "go"
\* and so responds only once notificationMux is free.)
HandleRespondAfterLock(r) ==
    /\ handler[r].pc = "saved"
    /\ notificationMux = 0
    /\ guard' = [guard EXCEPT ![r] = [@ EXCEPT !.pc = "waiting", !.level = handler[r].level]]
    /\ handler' = [handler EXCEPT ![r] = [@ EXCEPT !.pc = "done", !.status = StatusOK,
                    !.body = handler[r].level]]
    /\ UNCHANGED <<now, thresholdStr, lastNotifiedAt, notificationMux, level_data, evalLog>>

HandleRespond(r) ==
    /\ handler[r].pc = "saved"
    /\ guard' = [guard EXCEPT ![r] = [@ EXCEPT !.pc = "waiting", !.level = handler[r].level]]
    /\ handler' = [handler EXCEPT ![r] = [@ EXCEPT !.pc = "done", !.status = StatusOK,
                    !.body = handler[r].level]]
    /\ UNCHANGED <<now, thresholdStr, lastNotifiedAt, notificationMux, level_data, evalLog>>

\* -------------------------------------------- GET /api/level (main.go 154-190)
\* handleGetLevelData with getLatestLevelData: 405 for another method, 500 when
\* the query fails or finds no row, else 200 with the level of the row found.
\* (HandleGetLevelDataDefault: the variant whose getLatestLevelData returns
\* 0 and no error when the query finds no row.)
HandleGetLevelDataDefault(r, kind, dbOk) ==
    /\ NextReq(r)
    /\ IF kind = "notget" THEN
           handler' = [handler EXCEPT ![r] = [@ EXCEPT !.pc = "done", !.kind = kind,
                    !.status = StatusMethodNotAllowed]]
       ELSE IF ~dbOk THEN
           handler' = [handler EXCEPT ![r] = [@ EXCEPT !.pc = "done", !.kind = kind,
                    !.status = StatusInternalServerError, !.seen = Len(level_data),
                    !.dbErr = TRUE]]
       ELSE IF LatestRows(level_data) = {} THEN
           handler' = [handler EXCEPT ![r] = [@ EXCEPT !.pc = "done", !.kind = kind,
                    !.status = StatusOK, !.body = 0, !.seen = 0]]
       ELSE
           \E i \in LatestRows(level_data) :
               handler' = [handler EXCEPT ![r] = [@ EXCEPT !.pc = "done", !.kind = kind,
                    !.status = StatusOK, !.body = level_data[i].level,
                    !.seen = Len(level_data)]]
    /\ UNCHANGED <<now, thresholdStr, lastNotifiedAt, notificationMux, level_data,
                   guard, evalLog>>

HandleGetLevelData(r, kind, dbOk) ==
    /\ NextReq(r)
    /\ IF kind = "notget" THEN
           handler' = [handler EXCEPT ![r] = [@ EXCEPT !.pc = "done", !.kind = kind,
                    !.status = StatusMethodNotAllowed]]
       ELSE IF ~dbOk \/ LatestRows(level_data) = {} THEN
           handler' = [handler EXCEPT ![r] = [@ EXCEPT !.pc = "done", !.kind = kind,
                    !.status = StatusInternalServerError, !.seen = Len(level_data),
                    !.dbErr = ~dbOk]]
       ELSE
           \E i \in LatestRows(level_data) :
               handler' = [handler EXCEPT ![r] = [@ EXCEPT !.pc = "done", !.kind = kind,
                    !.status = StatusOK, !.body = level_data[i].level,
                    !.seen = Len(level_data)]]
    /\ UNCHANGED <<now, thresholdStr, lastNotifiedAt, notificationMux, level_data,
                   guard, evalLog>>

\* --------------------------------------------- checkAndNotify (main.go 78-114)
\* The mutex after lines 79-103: every return runs the deferred Unlock;
\* otherwise the goroutine goes on to sms.Send with the mutex still held.
\* (ReleasedAtSend: the variant that unlocks before calling sms.Send.)
ReleasedAtSend(r, sending) == 0
\* (HeldAfterReturn: the variant whose returns do not unlock.)
HeldAfterReturn(r, sending) == r
HeldAfterDecide(r, sending) == IF sending THEN r ELSE 0

\* Lines 82-103: whether the evaluation goes on to sms.Send.
Notify(level, str, last, n) ==
    /\ ThresholdConfigured(str)
    /\ ~BelowThreshold(level, ParseFloat(str))
    /\ ~Cooling(last, n)

\* Lines 79-106: notificationMux.Lock(), the threshold and cooldown checks and,
\* when they pass, the start of sms.Send.
CheckAndNotify(r) ==
    /\ guard[r].pc = "waiting"
    /\ notificationMux = 0
    /\ LET sending == Notify(guard[r].level, thresholdStr, lastNotifiedAt, now)
       IN  /\ guard' = [guard EXCEPT ![r] = [@ EXCEPT
                    !.pc = IF sending THEN "sending" ELSE "done",
                    !.decision = IF sending THEN "send" ELSE "skip",
                    !.decidedAt = now]]
           /\ notificationMux' = HeldAfterDecide(r, sending)
    /\ evalLog' = Append(evalLog, r)
    /\ UNCHANGED <<now, thresholdStr, lastNotifiedAt, level_data, handler>>

\* Lines 107-113: sms.Send returns.  On an error the function returns; on
\* success it records lastNotifiedAt = time.Now().  The deferred Unlock runs.
\* (RecordedAlways, RecordedNever: variants that record on either outcome, on none.)
RecordedAlways(last, ok, n) == n
RecordedNever(last, ok, n) == last
Recorded(last, ok, n) == IF ok THEN n ELSE last

\* (SendReturnsReporting: the variant whose error branch also answers the
\* request with http.Error.)
SendReturnsReporting(r, ok) ==
    /\ guard[r].pc = "sending"
    /\ lastNotifiedAt' = Recorded(lastNotifiedAt, ok, now)
    /\ guard' = [guard EXCEPT ![r] = [@ EXCEPT !.pc = "done", !.sendEnd = now,
                    !.sendOk = ok]]
    /\ notificationMux' = IF notificationMux = r THEN 0 ELSE notificationMux
    /\ handler' = IF ok THEN handler
                  ELSE [handler EXCEPT ![r] = [@ EXCEPT !.status = StatusInternalServerError,
                                                        !.body = 0]]
    /\ UNCHANGED <<now, thresholdStr, level_data, evalLog>>

SendReturns(r, ok) ==
    /\ guard[r].pc = "sending"
    /\ lastNotifiedAt' = Recorded(lastNotifiedAt, ok, now)
    /\ guard' = [guard EXCEPT ![r] = [@ EXCEPT !.pc = "done", !.sendEnd = now,
                    !.sendOk = ok]]
    /\ notificationMux' = IF notificationMux = r THEN 0 ELSE notificationMux
    /\ UNCHANGED <<now, thresholdStr, level_data, handler, evalLog>>

Next ==
    \/ Tick
    \/ \E r \in Reqs, kind \in {"post", "malformed", "notpost"}, lvl \in Levels,
          dbOk \in BOOLEAN : HandleSave(r, kind, lvl, dbOk)
    \/ \E r \in Reqs : HandleRespond(r)
    \/ \E r \in Reqs, kind \in {"get", "notget"}, dbOk \in BOOLEAN :
          HandleGetLevelData(r, kind, dbOk)
    \/ \E r \in Reqs : CheckAndNotify(r)
    \/ \E r \in Reqs, ok \in BOOLEAN : SendReturns(r, ok)

Spec == Init /\ [][Next]_vars

\* The server driven by a client that issues its requests one after another:
\* a request begins once the handlers of the earlier ones have returned.  The
\* goroutines started with "go checkAndNotify" run on as they like.
NextSequential ==
    \/ Tick
    \/ \E r \in Reqs, kind \in {"post", "malformed", "notpost"}, lvl \in Levels,
          dbOk \in BOOLEAN : ~Overlaps(r) /\ HandleSave(r, kind, lvl, dbOk)
    \/ \E r \in Reqs : HandleRespond(r)
    \/ \E r \in Reqs, kind \in {"get", "notget"}, dbOk \in BOOLEAN :
          ~Overlaps(r) /\ HandleGetLevelData(r, kind, dbOk)
    \/ \E r \in Reqs : CheckAndNotify(r)
    \/ \E r \in Reqs, ok \in BOOLEAN : SendReturns(r, ok)

SpecSequential == Init /\ [][NextSequential]_vars

\* The server runs each request in a goroutine of its own and the Go scheduler
\* keeps running every runnable goroutine: a handler past its store write goes
\* on to its response.  Nothing is assumed of the notifier or of the mutex.
SpecHandlersRun == Spec /\ \A r \in Reqs : WF_vars(HandleRespond(r))

\* As above, and furthermore a goroutine waiting in notificationMux.Lock() gets
\* the mutex once it stays free, and sms.Send returns: its http.Client has a
\* 10 second Timeout (sms.Send, unnamed/part_001 line 132).
SpecAllRun ==
    /\ Spec
    /\ \A r \in Reqs : WF_vars(HandleRespond(r))
    /\ \A r \in Reqs : WF_vars(CheckAndNotify(r))
    /\ \A r \in Reqs : WF_vars(\E ok \in BOOLEAN : SendReturns(r, ok))

\* ===================================================================== claims
\* Vocabulary of the claims, read off the recorded history.
Configured == thresholdStr \in {"10", "12"}
Threshold == IF thresholdStr = "12" THEN 12 ELSE 10
Evaluated(r) == guard[r].decision # "none"
Sent(r) == guard[r].decision = "send"
InFlight(r) == guard[r].pc = "sending"
Delivered(r) == Sent(r) /\ guard[r].pc = "done" /\ guard[r].sendOk
Undelivered(r) == Sent(r) /\ guard[r].pc = "done" /\ ~guard[r].sendOk
AtOrAbove(r) == Configured /\ guard[r].level >= Threshold
Pos(r) == CHOOSE i \in 1..Len(evalLog) : evalLog[i] = r
Earlier(r, s) == Evaluated(r) /\ Evaluated(s) /\ Pos(r) < Pos(s)
\* No successful send between the evaluations of r and s.
NoDeliveryBetween(r, s) == \A q \in Reqs : ~(Delivered(q) /\ Earlier(r, q) /\ Earlier(q, s))

\* ---- C1
\* The sends counted in the cooldown window opened by the evaluation f.
SendsWithin(f) ==
    {s \in Reqs : Sent(s) /\ (Delivered(f) => guard[s].decidedAt < guard[f].sendEnd + Hour)}
AllPostsTwelve ==
    /\ thresholdStr = "10"
    /\ \A r \in Reqs : guard[r].pc # "none" => guard[r].level = 12
    /\ \A r \in Reqs : ~Undelivered(r)

\* C1: with threshold 10, a 1-hour cooldown, no notification sent before, every
\* reading 12 and every send succeeding, the evaluations make exactly one
\* sms.Send call within the cooldown window of the first of them, however the
\* goroutines interleave: not zero and not more than one.
C1_ExactlyOneNotification ==
    (AllPostsTwelve /\ evalLog # << >>) => Cardinality(SendsWithin(evalLog[1])) = 1

\* Two readings of 12 evaluated in the same window, the later request's
\* goroutine first: it notified, the other was suppressed.
C1_Witness ==
    /\ AllPostsTwelve
    /\ \E r, s \in Reqs :
          /\ s < r /\ Earlier(r, s)
          /\ Delivered(r) /\ guard[s].pc = "done" /\ ~Sent(s)
          /\ guard[s].decidedAt < guard[r].sendEnd + Hour

\* ---- C2
\* C2 as stated: while a send issued by checkAndNotify is in flight,
\* lastNotifiedAt already holds the time of that decision.
C2_RecordedBeforeSend ==
    \A r \in Reqs : InFlight(r) => lastNotifiedAt = guard[r].decidedAt

\* C2 amended: lastNotifiedAt is recorded after sms.Send has returned success,
\* not at the decision.  While the send is in flight lastNotifiedAt still holds
\* its earlier value, at least one cooldown older than the decision; after a
\* successful return it holds a time no earlier than that return.
C2_RecordedAfterSendReturns ==
    \A r \in Reqs :
        /\ InFlight(r) => guard[r].decidedAt - lastNotifiedAt >= Hour
        /\ Delivered(r) => lastNotifiedAt >= guard[r].sendEnd

\* A send that returned success after the clock advanced: the recorded time
\* is that of the return, later than the decision.
C2_Witness ==
    \E r \in Reqs :
        /\ Delivered(r) /\ guard[r].sendEnd > guard[r].decidedAt
        /\ lastNotifiedAt = guard[r].sendEnd

\* ---- C3
\* C3 as stated: no goroutine executes sms.Send while it holds notificationMux.
C3_LockNotHeldDuringSend ==
    \A r \in Reqs : InFlight(r) => notificationMux # r

\* C3 amended: notificationMux is held across all of checkAndNotify, the
\* outbound sms.Send call included.  While a send is in flight its goroutine
\* holds the mutex and no other reading's checkAndNotify gets past Lock: the
\* sender is the last evaluation begun and the others keep waiting.
C3_LockHeldAcrossSend ==
    /\ \A r \in Reqs : InFlight(r) <=> notificationMux = r
    /\ \A r \in Reqs : InFlight(r) => evalLog[Len(evalLog)] = r

\* A send in flight over a clock advance while another reading's goroutine
\* waits for the mutex.
C3_Witness ==
    \E r, s \in Reqs :
        /\ InFlight(r) /\ now > guard[r].decidedAt
        /\ guard[s].pc = "waiting"

\* ---- C4
\* C4 as stated: after a failed send, every later reading at or above the
\* threshold evaluated less than one cooldown after that decision sends nothing.
C4_FailedDeliveryConsumesCooldown ==
    \A r, s \in Reqs :
        (/\ Undelivered(r) /\ Earlier(r, s) /\ AtOrAbove(s)
         /\ guard[s].decidedAt - guard[r].decidedAt < Hour)
        => ~Sent(s)

\* C4 amended: a failed delivery does not consume the cooldown window.  When
\* the send returns an error nothing is recorded, lastNotifiedAt stays at least
\* one cooldown older than the decision, and the next reading at or above the
\* threshold causes a send again, however soon it is evaluated.
C4_FailedDeliveryKeepsArmed ==
    \A r \in Reqs :
        /\ (Undelivered(r) /\ evalLog[Len(evalLog)] = r)
              => guard[r].decidedAt - lastNotifiedAt >= Hour
        /\ \A s \in Reqs :
              (Undelivered(r) /\ Earlier(r, s) /\ AtOrAbove(s) /\ NoDeliveryBetween(r, s))
              => Sent(s)

\* A failed send followed, within the hour, by another send.
C4_Witness ==
    \E r, s \in Reqs :
        /\ Undelivered(r) /\ Earlier(r, s) /\ Sent(s)
        /\ guard[s].decidedAt - guard[r].decidedAt < Hour

\* ---- C5
\* C5: with a threshold configured and a 1-hour cooldown, evaluations running
\* one after another behave as follows for a reading at or above the threshold:
\* with no notification delivered before it, it causes a send; evaluated less
\* than an hour after a delivered notification was recorded, it causes none;
\* evaluated once the hour since the last delivered notification has elapsed,
\* it causes a send again.  Nothing re-arms the guard but the next evaluation.
C5_CooldownCycle ==
    \A s \in Reqs :
        (Evaluated(s) /\ AtOrAbove(s)) =>
            /\ (\A r \in Reqs : ~(Delivered(r) /\ Earlier(r, s))) => Sent(s)
            /\ \A r \in Reqs :
                  (Delivered(r) /\ Earlier(r, s)
                   /\ guard[s].decidedAt - guard[r].sendEnd < Hour) => ~Sent(s)
            /\ (\A r \in Reqs :
                  (Delivered(r) /\ Earlier(r, s))
                  => guard[s].decidedAt - guard[r].sendEnd >= Hour) => Sent(s)

\* A delivered notification and, exactly one hour after it was recorded, a
\* reading at the threshold that causes a send again.
C5_Witness ==
    \E r, s \in Reqs :
        /\ Delivered(r) /\ Earlier(r, s) /\ Sent(s)
        /\ guard[s].level = Threshold
        /\ guard[s].decidedAt - guard[r].sendEnd = Hour

\* ---- C6
\* C6: any two successful notifications are at least one cooldown apart: a
\* send that returns success was started no less than an hour after the
\* previous successful notification was recorded, under every interleaving.
C6_DeliveriesCooldownApart ==
    \A r, s \in Reqs :
        (Delivered(r) /\ Delivered(s) /\ Earlier(r, s))
        => guard[s].decidedAt - guard[r].sendEnd >= Hour

\* Two delivered notifications, the first of them for the reading posted
\* second, whose goroutine took the mutex first.
C6_Witness ==
    \E r, s \in Reqs :
        /\ Delivered(r) /\ Delivered(s) /\ Earlier(r, s)
        /\ handler[s].rowId < handler[r].rowId

\* ---- C7
\* C7: with LEVEL_THRESHOLD empty or unset no notification ever fires: no
\* evaluation calls sms.Send and lastNotifiedAt is never changed.
C7_UnsetThresholdNeverNotifies ==
    thresholdStr = "" =>
        /\ \A r \in Reqs : ~Sent(r)
        /\ lastNotifiedAt = ZeroTime

\* With the threshold unset, readings of 10 and of 12 were both evaluated.
C7_Witness ==
    /\ thresholdStr = ""
    /\ \E r, s \in Reqs :
          /\ guard[r].pc = "done" /\ guard[r].level = 10
          /\ guard[s].pc = "done" /\ guard[s].level = 12

\* ---- C8
GetOK(g) == handler[g].kind = "get" /\ handler[g].status = StatusOK

\* C8 as stated: after sequential successful posts, GET /api/level returns the
\* level of the most recently posted reading, the last row stored.  (Stated of
\* SpecSequential, where every request begins after the handlers of the
\* earlier ones have returned.)
C8_GetReturnsMostRecentPost ==
    \A g \in Reqs :
        GetOK(g) => handler[g].body = level_data[handler[g].seen].level

\* ---- C9
\* The rows a query at table length n ranks first by created_at.
NewestAt(n) ==
    {i \in 1..n : \A j \in 1..n : level_data[j].created_at <= level_data[i].created_at}
GreatestId(rows) == CHOOSE i \in rows : \A j \in rows : level_data[j].id <= level_data[i].id

\* C9 as stated: among the readings whose created_at is equal and greatest,
\* getLatestLevelData returns the one with the greatest id.
C9_TiesBrokenById ==
    \A g \in Reqs :
        GetOK(g) => handler[g].body = level_data[GreatestId(NewestAt(handler[g].seen))].level

\* ---- C10
PostOK(r) == handler[r].kind = "post" /\ handler[r].status = StatusOK
Stored(r) == handler[r].rowId # 0

\* One row per accepted reading: the rows correspond one to one to the POST
\* handlers that got past the store write, each carries its request's level
\* and its place as id, and no other request owns a row.
OneRowPerIngestion ==
    /\ Len(level_data) = Cardinality({r \in Reqs : Stored(r)})
    /\ \A r \in Reqs :
          /\ PostOK(r) => Stored(r)
          /\ Stored(r) => /\ handler[r].kind = "post"
                          /\ handler[r].rowId \in 1..Len(level_data)
                          /\ level_data[handler[r].rowId].level = handler[r].level
                          /\ level_data[handler[r].rowId].id = handler[r].rowId
          /\ \A q \in Reqs : (Stored(r) /\ Stored(q) /\ r # q) => handler[r].rowId # handler[q].rowId

\* A step either leaves the table alone or is a POST handler's store write,
\* which adds one row after the rows already there.
AppendOnlyStep ==
    \/ level_data' = level_data
    \/ /\ Len(level_data') = Len(level_data) + 1
       /\ SubSeq(level_data', 1, Len(level_data)) = level_data
       /\ \E r \in Reqs : handler[r].pc = "idle" /\ handler'[r].pc = "saved"

\* C10: the reading log is append-only and grows by exactly one row per valid
\* ingestion: every POST answered 200 appended exactly one row, no GET,
\* rejected POST or threshold evaluation appends any, and the rows of an
\* earlier state are all there, unchanged and in the same order, later on.
C10_AppendOnlyLog == [](OneRowPerIngestion) /\ [][AppendOnlyStep]_vars

\* Two readings stored and answered 200, their evaluations run, and a GET
\* served as well.
C10_Witness ==
    /\ Len(level_data) = 2
    /\ \E r, s, g \in Reqs :
          /\ r # s /\ PostOK(r) /\ PostOK(s)
          /\ Evaluated(r) /\ Evaluated(s)
          /\ GetOK(g)

\* ---- C11
\* C11: the response of POST /api does not wait for the threshold evaluation:
\* a handler whose store write succeeded goes on to its 200 response whatever
\* the state of notificationMux and of any sms.Send, so it eventually responds
\* even while another goroutine holds the mutex or a delivery never returns.
C11_RespondsWithoutWaiting ==
    \A r \in Reqs : (handler[r].pc = "saved") ~> (handler[r].pc = "done" /\ handler[r].status = StatusOK)

\* A POST answered 200 while another reading's goroutine held the mutex in a
\* send that had not returned, its own evaluation still waiting.
C11_Witness ==
    \E r, q \in Reqs :
        /\ handler[r].kind = "post" /\ handler[r].status = StatusOK
        /\ guard[r].pc = "waiting"
        /\ InFlight(q) /\ notificationMux = q

\* ---- C12
\* What the client of POST /api sent and what the store did with it.
PostRequest(r) == handler[r].pc = "done" /\ handler[r].kind \in {"post", "malformed", "notpost"}
SameRequest(r, q) ==
    /\ handler[r].kind = handler[q].kind
    /\ handler[r].level = handler[q].level
    /\ (handler[r].rowId # 0) = (handler[q].rowId # 0)
Response(r) == <<handler[r].status, handler[r].body>>
\* The response the handler gives, from the request and the store outcome.
ExpectedResponse(r) ==
    IF handler[r].kind = "notpost" THEN <<StatusMethodNotAllowed, 0>>
    ELSE IF handler[r].kind = "malformed" THEN <<StatusBadRequest, 0>>
    ELSE IF handler[r].rowId = 0 THEN <<StatusInternalServerError, 0>>
    ELSE <<StatusOK, handler[r].level>>

\* C12: the response of POST /api does not depend on the notifier.  Two
\* requests with the same method, body and store outcome have got the same
\* status and body whether the send of either succeeded, failed, was skipped
\* or has not happened yet; the response is the one the request and the store
\* outcome determine.
C12_ResponseIgnoresNotifier ==
    [](\A r \in Reqs :
          PostRequest(r) =>
              /\ Response(r) = ExpectedResponse(r)
              /\ \A q \in Reqs :
                    (PostRequest(q) /\ SameRequest(r, q)) => Response(q) = Response(r))

\* Two posts of the same level, one whose send failed and one whose send
\* succeeded: both were answered 200 with the level.
C12_Witness ==
    \E r, q \in Reqs :
        /\ PostRequest(r) /\ PostRequest(q) /\ SameRequest(r, q)
        /\ Undelivered(r) /\ Delivered(q)
        /\ Response(r) = <<StatusOK, handler[r].level>>

\* ---- C13
GetRequest(g) == handler[g].pc = "done" /\ handler[g].kind = "get"

\* C13: GET /api/level on a store that holds no reading answers 500, never
\* 200 with a default such as 0; getLatestLevelData returns an error exactly
\* when the table is empty or the query fails, and otherwise the handler
\* answers 200 with the level of a stored reading.
C13_EmptyStoreIsAnError ==
    [](\A g \in Reqs :
          GetRequest(g) =>
              /\ (handler[g].status = StatusInternalServerError)
                    <=> (handler[g].seen = 0 \/ handler[g].dbErr)
              /\ (handler[g].status = StatusOK)
                    <=> ~(handler[g].seen = 0 \/ handler[g].dbErr)
              /\ (handler[g].status = StatusOK)
                    => \E i \in 1..handler[g].seen : handler[g].body = level_data[i].level)

\* A GET whose query ran without failure on the empty table and was answered
\* 500; a reading was stored only afterwards.
C13_Witness ==
    \E g \in Reqs :
        /\ GetRequest(g) /\ handler[g].seen = 0 /\ ~handler[g].dbErr
        /\ handler[g].status = StatusInternalServerError
        /\ Len(level_data) > 0

\* ---- C14
Malformed(r) == handler[r].kind = "malformed"
\* The step in which the handler of r rejects a malformed body.
RejectsMalformed(r) == handler[r].pc = "idle" /\ Malformed(r)'

\* C14: a POST /api whose body is not valid JSON is answered 400 and leaves
\* the state as it was: the step adds no row, spawns no evaluation and leaves
\* lastNotifiedAt and the mutex alone, and the request never owns a row or a
\* goroutine afterwards.
C14_MalformedChangesNothing ==
    /\ [][\A r \in Reqs : RejectsMalformed(r) =>
             /\ handler'[r].pc = "done" /\ handler'[r].status = StatusBadRequest
             /\ level_data' = level_data /\ guard' = guard /\ evalLog' = evalLog
             /\ lastNotifiedAt' = lastNotifiedAt /\ notificationMux' = notificationMux]_vars
    /\ [](\A r \in Reqs : Malformed(r) =>
             /\ handler[r].status = StatusBadRequest
             /\ handler[r].rowId = 0 /\ guard[r].pc = "none")

\* A malformed POST rejected with 400 after a notification was delivered and
\* while a row is stored: the table and lastNotifiedAt are as that left them.
C14_Witness ==
    \E r, q \in Reqs :
        /\ q < r /\ Delivered(q) /\ lastNotifiedAt = guard[q].sendEnd
        /\ Malformed(r) /\ handler[r].status = StatusBadRequest
        /\ Len(level_data) = 1

\* ---- C15
\* C15: the guard goes from Armed to Cooling exactly when a notification is
\* successfully dispatched: a step assigns lastNotifiedAt a new value if and
\* only if it is the return of an sms.Send that succeeded; a skipped
\* evaluation and a failed send leave lastNotifiedAt as it was.  So
\* lastNotifiedAt is the zero time or the return time of a delivered send.
C15_CoolingOnlyOnDelivery ==
    /\ [][(lastNotifiedAt' # lastNotifiedAt)
             <=> (\E r \in Reqs : InFlight(r) /\ Delivered(r)')]_vars
    /\ [](\/ lastNotifiedAt = ZeroTime /\ \A r \in Reqs : ~Delivered(r)
          \/ \E r \in Reqs : Delivered(r) /\ lastNotifiedAt = guard[r].sendEnd)

\* A failed send that left the guard armed, and right after it a send that
\* succeeded: its return time is what lastNotifiedAt holds.
C15_Witness ==
    \E r, q \in Reqs :
        /\ Undelivered(r) /\ Earlier(r, q) /\ Delivered(q)
        /\ guard[q].decidedAt = guard[r].sendEnd
        /\ lastNotifiedAt = guard[q].sendEnd /\ lastNotifiedAt # ZeroTime

\* ---- C16
\* The guard is cooling for the evaluation s: a notification delivered before
\* it was recorded less than an hour before s decided.
CoolingFor(s) ==
    \E r \in Reqs : Delivered(r) /\ Earlier(r, s)
                    /\ guard[s].decidedAt - guard[r].sendEnd < Hour

\* C16: checkAndNotify(level) attempts a send if and only if the threshold is
\* configured and parses, level >= threshold (a level equal to the threshold
\* notifies, a level below it never does) and the guard is not cooling; each
\* evaluation runs once, makes at most one send call and is final once done.
C16_SendsExactlyWhenDue ==
    /\ [](\A s \in Reqs :
             /\ Evaluated(s) =>
                   (Sent(s) <=> (/\ thresholdStr \in {"10", "12"}
                                 /\ guard[s].level >= Threshold
                                 /\ ~CoolingFor(s)))
             /\ Cardinality({i \in 1..Len(evalLog) : evalLog[i] = s}) <= 1)
    /\ [][\A s \in Reqs : guard[s].pc = "done" => guard'[s] = guard[s]]_vars

\* Threshold 12: a reading of 10 was skipped and a reading of 12, equal to
\* the threshold, caused a send.
C16_Witness ==
    /\ thresholdStr = "12"
    /\ \E r, s \in Reqs :
          /\ Evaluated(r) /\ guard[r].level = 10 /\ ~Sent(r)
          /\ Sent(s) /\ guard[s].level = 12

\* ---- C17
\* C17: lastNotifiedAt belongs to the guard alone.  It is written only by the
\* goroutine that holds notificationMux, at the return of its send; it is read
\* only in the evaluation step, which takes the free mutex; and no step of the
\* ingestion handler, the query handler or the store changes it.
C17_GuardOwnsLastNotifiedAt ==
    [][/\ (lastNotifiedAt' # lastNotifiedAt) =>
              \E r \in Reqs : notificationMux = r /\ InFlight(r) /\ guard'[r].pc = "done"
       /\ \A r \in Reqs : (guard[r].decision # guard'[r].decision) =>
              (notificationMux = 0 /\ notificationMux' \in {0, r})
       /\ (handler' # handler \/ level_data' # level_data) =>
              lastNotifiedAt' = lastNotifiedAt]_vars

\* With a notification recorded, a later POST was stored and answered and a
\* GET served: lastNotifiedAt is still the time recorded by the guard.
C17_Witness ==
    \E r, q, g \in Reqs :
        /\ Delivered(r) /\ lastNotifiedAt = guard[r].sendEnd
        /\ handler[q].kind = "post" /\ handler[q].status = StatusOK
        /\ level_data[handler[q].rowId].created_at > guard[r].sendEnd
        /\ GetRequest(g) /\ handler[g].seen = 2

\* ---- C18
\* C18: background evaluation neither leaks nor deadlocks.  sms.Send returns,
\* so every spawned checkAndNotify terminates and has released the mutex when
\* it is done, on the skip paths as on the send paths; with the goroutines
\* scheduled fairly every evaluation waiting for the mutex gets it and
\* completes.
C18_EvaluationsComplete ==
    /\ [](\A r \in Reqs : guard[r].pc = "done" => notificationMux # r)
    /\ [](\A r \in Reqs : notificationMux = r => guard[r].pc = "sending")
    /\ \A r \in Reqs : (guard[r].pc = "waiting") ~> (guard[r].pc = "done")

\* Both evaluations done and the mutex free, the second of them having
\* waited while the first was sending.
C18_Witness ==
    /\ notificationMux = 0
    /\ \E r, s \in Reqs :
          /\ Earlier(r, s) /\ Sent(r)
          /\ guard[r].pc = "done" /\ guard[s].pc = "done"
          /\ guard[r].sendEnd > level_data[handler[s].rowId].created_at

\* ---- C19
\* C19: only persisted readings are evaluated.  A POST whose store write
\* fails is answered 500, owns no row and no goroutine, then or later; every
\* evaluation, and so every sms.Send, belongs to a POST whose row is in the
\* table with the level evaluated; and a POST answered 200 has spawned its
\* evaluation, which runs once.
C19_OnlyStoredReadingsEvaluated ==
    [](\A r \in Reqs :
          /\ (handler[r].kind = "post" /\ handler[r].dbErr) =>
                /\ handler[r].pc = "done" /\ handler[r].status = StatusInternalServerError
                /\ handler[r].rowId = 0 /\ guard[r].pc = "none"
          /\ guard[r].pc # "none" =>
                /\ handler[r].kind = "post" /\ handler[r].status = StatusOK
                /\ handler[r].rowId \in 1..Len(level_data)
                /\ level_data[handler[r].rowId].level = guard[r].level
          /\ (handler[r].kind = "post" /\ handler[r].status = StatusOK) => guard[r].pc # "none"
          /\ Cardinality({i \in 1..Len(evalLog) : evalLog[i] = r}) <= 1)

\* A POST refused with 500 by a failing store, with no goroutine, and a
\* stored reading whose evaluation sent.
C19_Witness ==
    \E r, s \in Reqs :
        /\ handler[r].kind = "post" /\ handler[r].dbErr /\ guard[r].pc = "none"
        /\ Sent(s) /\ handler[s].rowId # 0

====
